---- MODULE Spec2Model ----
(***************************************************************************)
(* Play animation and timeline engine of the play creator:                 *)
(*   - coordinate mapper   (toCourtPos / fromCourtPos)                     *)
(*   - path resolver       (getPlayerPositionAtStep)                       *)
(*   - timeline interpolator (getAnimatedPlayerPositions)                  *)
(*   - animation driver    (AnimatedScene useEffect / useFrame, the        *)
(*                          isAnimating state of CreatePlay, setTimeout)   *)
(*                                                                         *)
(* JavaScript numbers are modelled as exact rationals <<n, d>> in lowest   *)
(* terms with d > 0; rounding of IEEE doubles is not modelled.             *)
(***************************************************************************)
EXTENDS Integers, Sequences, FiniteSets, TLC

(***************************************************************************)
(* Exact rational arithmetic                                               *)
(***************************************************************************)
Abs(n) == IF n < 0 THEN -n ELSE n

RECURSIVE Gcd(_, _)
Gcd(a, b) == IF b = 0 THEN a ELSE Gcd(b, a % b)

Norm(n, d) ==
  LET s == IF d < 0 THEN -1 ELSE 1
      g == Gcd(Abs(n), Abs(d))
  IN  <<(s * n) \div g, (s * d) \div g>>

R(n) == <<n, 1>>

RAdd(a, b) ==
  LET g == Gcd(a[2], b[2])
  IN  Norm(a[1] * (b[2] \div g) + b[1] * (a[2] \div g), (a[2] \div g) * b[2])

RNeg(a) == <<-a[1], a[2]>>

RSub(a, b) == RAdd(a, RNeg(b))

RMul(a, b) ==
  LET g1 == Gcd(Abs(a[1]), b[2])
      g2 == Gcd(Abs(b[1]), a[2])
  IN  Norm((a[1] \div g1) * (b[1] \div g2), (a[2] \div g2) * (b[2] \div g1))

RInv(a) == IF a[1] < 0 THEN <<-a[2], -a[1]>> ELSE <<a[2], a[1]>>

RDiv(a, b) == RMul(a, RInv(b))

RLt(a, b) == a[1] * b[2] < b[1] * a[2]

RLe(a, b) == a[1] * b[2] <= b[1] * a[2]

RMin(a, b) == IF RLe(a, b) THEN a ELSE b

RMax(a, b) == IF RLe(a, b) THEN b ELSE a

RAbs(a) == <<Abs(a[1]), a[2]>>

RFloor(a) == a[1] \div a[2]

Pt(x, y) == [x |-> R(x), y |-> R(y)]

(***************************************************************************)
(* Court dimensions (metres) and the coordinate mapper                     *)
(***************************************************************************)
FT == <<381, 1250>>

COURT_LENGTH == RMul(R(94), FT)

COURT_WIDTH == RMul(R(50), FT)

HALF_L == RDiv(COURT_LENGTH, R(2))

HALF_W == RDiv(COURT_WIDTH, R(2))

CANVAS_W == 800

CANVAS_H == 500

CourtModes == {"full", "half"}

toCourtPos(x, y, mode) ==
  IF mode = "half"
  THEN <<RMul(RDiv(x, R(CANVAS_W)), HALF_L), R(0),
         RSub(RMul(RDiv(y, R(CANVAS_H)), COURT_WIDTH), HALF_W)>>
  ELSE <<RSub(RMul(RDiv(x, R(CANVAS_W)), COURT_LENGTH), HALF_L), R(0),
         RSub(RMul(RDiv(y, R(CANVAS_H)), COURT_WIDTH), HALF_W)>>

\* mutant: the inverse mapping of the full court used in every mode
fromCourtPosFullOnly(px, pz, mode) ==
  <<RMul(RDiv(RAdd(px, HALF_L), COURT_LENGTH), R(CANVAS_W)),
    RMul(RDiv(RAdd(pz, HALF_W), COURT_WIDTH), R(CANVAS_H))>>

fromCourtPos(px, pz, mode) ==
  IF mode = "half"
  THEN <<RMul(RDiv(px, HALF_L), R(CANVAS_W)),
         RMul(RDiv(RAdd(pz, HALF_W), COURT_WIDTH), R(CANVAS_H))>>
  ELSE <<RMul(RDiv(RAdd(px, HALF_L), COURT_LENGTH), R(CANVAS_W)),
         RMul(RDiv(RAdd(pz, HALF_W), COURT_WIDTH), R(CANVAS_H))>>

(***************************************************************************)
(* Play document                                                           *)
(*   player : [id, x, y, number, team, position]                           *)
(*   action : [type, fromX, fromY, toX, toY, stepIndex, waypoints, delay] *)
(* An absent waypoint list is <<>> and an absent delay is 0, which is how  *)
(* the interpolator reads them (act.waypoints || [], act.delay || 0).      *)
(***************************************************************************)
POSITIONS == <<"PG", "SG", "SF", "PF", "C">>

CourtPlayer(id, x, y, number, team, position) ==
  [id |-> id, x |-> x, y |-> y, number |-> number, team |-> team, position |-> position]

\* an offense player at integer coordinates, without a role ("position?")
Player(id, x, y) == CourtPlayer(id, R(x), R(y), 1, "home", "none")

Act(type, from, to, stepIndex, waypoints, delay) ==
  [type |-> type, fromX |-> from.x, fromY |-> from.y, toX |-> to.x, toY |-> to.y,
   stepIndex |-> stepIndex, waypoints |-> waypoints, delay |-> delay]

FromOf(a) == [x |-> a.fromX, y |-> a.fromY]

ToOf(a) == [x |-> a.toX, y |-> a.toY]

MaxOf(S) == CHOOSE m \in S : \A n \in S : n <= m

\* mutant: the step after the last action of the list
TotalStepsOfLast(actions) ==
  IF Len(actions) > 0 THEN actions[Len(actions)].stepIndex + 1 ELSE 1

\* mutant: no steps at all without actions
TotalStepsNoDefault(actions) ==
  IF Len(actions) > 0
  THEN MaxOf({actions[i].stepIndex : i \in 1..Len(actions)}) + 1
  ELSE 0

TotalSteps(actions) ==
  IF Len(actions) > 0
  THEN MaxOf({actions[i].stepIndex : i \in 1..Len(actions)}) + 1
  ELSE 1

(***************************************************************************)
(* Tolerance matching and the path resolver                                *)
(***************************************************************************)
TOLERANCE == 50

MotionTypes == {"move", "dribble", "screen"}

Matches(a, step, cx, cy) ==
  /\ a.stepIndex = step
  /\ a.type \in MotionTypes
  /\ RLt(RAbs(RSub(a.fromX, cx)), R(TOLERANCE))
  /\ RLt(RAbs(RSub(a.fromY, cy)), R(TOLERANCE))

\* Array.prototype.find: index of the first matching action, 0 when none
FindAction(actions, step, cx, cy) ==
  LET S == {i \in 1..Len(actions) : Matches(actions[i], step, cx, cy)}
  IN  IF S = {} THEN 0 ELSE CHOOSE i \in S : \A j \in S : i <= j

\* mutant: the loop also applies the action of targetStep itself
RECURSIVE ResolveFromInclusive(_, _, _, _)
ResolveFromInclusive(pos, actions, step, targetStep) ==
  IF step > targetStep THEN pos
  ELSE LET i == FindAction(actions, step, pos.x, pos.y)
       IN  ResolveFromInclusive(IF i # 0 THEN ToOf(actions[i]) ELSE pos,
                                actions, step + 1, targetStep)

RECURSIVE ResolveFrom(_, _, _, _)
ResolveFrom(pos, actions, step, targetStep) ==
  IF step >= targetStep THEN pos
  ELSE LET i == FindAction(actions, step, pos.x, pos.y)
       IN  ResolveFrom(IF i # 0 THEN ToOf(actions[i]) ELSE pos,
                       actions, step + 1, targetStep)

getPlayerPositionAtStep(player, actions, targetStep) ==
  ResolveFrom([x |-> player.x, y |-> player.y], actions, 0, targetStep)

(***************************************************************************)
(* Timeline interpolator                                                   *)
(***************************************************************************)
MAX_DELAY_FRAC == <<99, 100>>

\* mutant: the delay in seconds used as the step fraction, neither scaled by
\* the speed nor clamped
DelayFracRaw(delay, speed) == delay

DelayFrac(delay, speed) == RMin(RMul(delay, speed), MAX_DELAY_FRAC)

EffectiveFrac(step, completedStep, frac, delayFrac) ==
  IF step < completedStep THEN R(1)
  ELSE RMax(R(0), RDiv(RSub(frac, delayFrac), RSub(R(1), delayFrac)))

AllPoints(act) == <<FromOf(act)>> \o act.waypoints \o <<ToOf(act)>>

Lerp(a, b, t) == RAdd(a, RMul(RSub(b, a), t))

\* mutant: the segment index is not subtracted from segProgress
PathPointNoSegBase(act, effectiveFrac) ==
  LET allPoints == AllPoints(act)
      segments == Len(allPoints) - 1
      segProgress == RMul(effectiveFrac, R(segments))
      floorSeg == RFloor(segProgress)
      segIdx == IF floorSeg < segments - 1 THEN floorSeg ELSE segments - 1
      segFrac == segProgress
      p == allPoints[segIdx + 1]
      q == allPoints[segIdx + 2]
  IN  [x |-> Lerp(p.x, q.x, segFrac), y |-> Lerp(p.y, q.y, segFrac)]

\* position on the path [from, w1..wk, to] at effectiveFrac in (0, 1)
PathPoint(act, effectiveFrac) ==
  LET allPoints == AllPoints(act)
      segments == Len(allPoints) - 1
      segProgress == RMul(effectiveFrac, R(segments))
      floorSeg == RFloor(segProgress)
      segIdx == IF floorSeg < segments - 1 THEN floorSeg ELSE segments - 1
      segFrac == RSub(segProgress, R(segIdx))
      p == allPoints[segIdx + 1]
      q == allPoints[segIdx + 2]
  IN  [x |-> Lerp(p.x, q.x, segFrac), y |-> Lerp(p.y, q.y, segFrac)]

\* mutant: completed steps are interpolated at the current fraction again
ApplyActionReinterpolated(pos, act, step, completedStep, frac, speed) ==
  LET delayFrac == DelayFrac(act.delay, speed)
      effectiveFrac == RMax(R(0), RDiv(RSub(frac, delayFrac), RSub(R(1), delayFrac)))
  IN  IF RLe(R(1), effectiveFrac) THEN ToOf(act)
      ELSE IF RLt(R(0), effectiveFrac) THEN PathPoint(act, effectiveFrac)
      ELSE pos

\* body of "if (act) { ... }" for one step of the walk
ApplyAction(pos, act, step, completedStep, frac, speed) ==
  LET delay == act.delay
      delayFrac == DelayFrac(delay, speed)
      effectiveFrac == EffectiveFrac(step, completedStep, frac, delayFrac)
  IN  IF step < completedStep \/ RLe(R(1), effectiveFrac) THEN ToOf(act)
      ELSE IF RLt(R(0), effectiveFrac) THEN PathPoint(act, effectiveFrac)
      ELSE pos

LoopLast(completedStep, totalSteps) ==
  IF completedStep < totalSteps - 1 THEN completedStep ELSE totalSteps - 1

\* mutant: screen actions do not move the player during playback
AnimMatchesNoScreen(a, step, cx, cy) ==
  /\ a.stepIndex = step
  /\ a.type \in {"move", "dribble"}
  /\ RLt(RAbs(RSub(a.fromX, cx)), R(TOLERANCE))
  /\ RLt(RAbs(RSub(a.fromY, cy)), R(TOLERANCE))

\* mutant: every action type moves the player during playback
AnimMatchesAnyType(a, step, cx, cy) ==
  /\ a.stepIndex = step
  /\ RLt(RAbs(RSub(a.fromX, cx)), R(TOLERANCE))
  /\ RLt(RAbs(RSub(a.fromY, cy)), R(TOLERANCE))

\* mutant: the action of the step is taken wherever it starts
AnimMatchesAnywhere(a, step, cx, cy) ==
  /\ a.stepIndex = step
  /\ a.type \in MotionTypes

\* mutant: a from at exactly the tolerance matches too
AnimMatchesInclusive(a, step, cx, cy) ==
  /\ a.stepIndex = step
  /\ a.type \in MotionTypes
  /\ RLe(RAbs(RSub(a.fromX, cx)), R(TOLERANCE))
  /\ RLe(RAbs(RSub(a.fromY, cy)), R(TOLERANCE))

\* the interpolator's own copy of the matching predicate
AnimMatches(a, step, cx, cy) ==
  /\ a.stepIndex = step
  /\ a.type \in MotionTypes
  /\ RLt(RAbs(RSub(a.fromX, cx)), R(TOLERANCE))
  /\ RLt(RAbs(RSub(a.fromY, cy)), R(TOLERANCE))

\* mutant: the last matching action of the list is taken
AnimFindLastAction(actions, step, cx, cy) ==
  LET S == {i \in 1..Len(actions) : AnimMatches(actions[i], step, cx, cy)}
  IN  IF S = {} THEN 0 ELSE CHOOSE i \in S : \A j \in S : j <= i

AnimFindAction(actions, step, cx, cy) ==
  LET S == {i \in 1..Len(actions) : AnimMatches(actions[i], step, cx, cy)}
  IN  IF S = {} THEN 0 ELSE CHOOSE i \in S : \A j \in S : i <= j

RECURSIVE AnimWalk(_, _, _, _, _, _, _)
AnimWalk(pos, actions, step, last, completedStep, frac, speed) ==
  IF step > last THEN pos
  ELSE LET i == AnimFindAction(actions, step, pos.x, pos.y)
       IN  AnimWalk(IF i # 0
                    THEN ApplyAction(pos, actions[i], step, completedStep, frac, speed)
                    ELSE pos,
                    actions, step + 1, last, completedStep, frac, speed)

\* (cx, cy) of one player at the end of the step loop, before toCourtPos
AnimatedXY(player, actions, progress, totalSteps, speed) ==
  LET completedStep == RFloor(progress)
      frac == RSub(progress, R(completedStep))
  IN  AnimWalk([x |-> player.x, y |-> player.y], actions, 0,
               LoopLast(completedStep, totalSteps), completedStep, frac, speed)

Ids(players) == {players[i].id : i \in 1..Len(players)}

PlayerById(players, id) ==
  players[CHOOSE i \in 1..Len(players) : players[i].id = id]

getAnimatedPlayerPositions(players, actions, progress, totalSteps, mode, speed) ==
  [id \in Ids(players) |->
     LET c == AnimatedXY(PlayerById(players, id), actions, progress, totalSteps, speed)
         v == toCourtPos(c.x, c.y, mode)
     IN  <<v[1], R(0), v[3]>>]

(***************************************************************************)
(* Bounded inputs                                                          *)
(***************************************************************************)
MaxActions == 2

MaxProgressStep == 2

MaxTargetStep == 3

\* playback speeds: the Court3D default (0.5) and the helper's default (1)
Speeds == {<<1, 2>>, R(1)}

\* values of the delay slider: 0 .. 3 in steps of 0.25
SliderDelays == {Norm(k, 4) : k \in 0..12}

StepFracs ==
  { R(0), <<1, 12>>, <<1, 4>>, <<1, 3>>, <<1, 2>>, <<2, 3>>, <<3, 4>>, <<11, 12>>,
    <<199, 200>> }

ProgressInputs == {RAdd(R(s), f) : s \in 0..MaxProgressStep, f \in StepFracs}

PlayerChoices ==
  { <<Player("p1", 0, 0)>>,
    <<Player("p1", 30, 30)>>,
    <<Player("p1", 0, 0), Player("p2", 30, 30)>> }

ActionPool ==
  { Act("move", Pt(0, 0), Pt(50, 0), 0, <<>>, R(0)),
    Act("move", Pt(50, 0), Pt(50, 50), 1, <<>>, R(0)),
    Act("move", Pt(0, 0), Pt(100, 0), 0, <<>>, <<1, 2>>),
    Act("dribble", Pt(0, 0), Pt(100, 0), 0, <<Pt(20, 40), Pt(60, 20)>>, R(0)),
    Act("screen", Pt(50, 0), Pt(0, 50), 1, <<Pt(40, 40)>>, R(3)),
    Act("pass", Pt(0, 0), Pt(50, 50), 0, <<>>, R(0)),
    Act("move", Pt(50, 0), Pt(100, 50), 0, <<>>, <<1, 4>>),
    Act("move", Pt(200, 200), Pt(0, 0), 1, <<>>, R(0)) }

RECURSIVE SeqsUpTo(_, _)
SeqsUpTo(S, n) ==
  IF n = 0 THEN {<<>>}
  ELSE LET T == SeqsUpTo(S, n - 1)
       IN  T \cup {Append(t, a) : t \in {u \in T : Len(u) = n - 1}, a \in S}

Documents == SeqsUpTo(ActionPool, MaxActions)

CoordXs == {-100, 0, 1, 123, 400, 800, 950}

CoordYs == {-50, 0, 7, 250, 500, 640}

(***************************************************************************)
(* State                                                                   *)
(***************************************************************************)
VARIABLES
  phase,        \* position of the evaluation: "input", "evaluated", ...
  players,      \* play document: ordered players
  actions,      \* play document: ordered actions
  speed,        \* playback speed (steps per second)
  courtMode,    \* "full" | "half"
  argProgress,  \* progress handed to the interpolator
  animated,     \* result of getAnimatedPlayerPositions (court space)
  argPoint,     \* authoring point handed to the coordinate mapper
  courtPt,      \* result of toCourtPos
  backPt,       \* result of fromCourtPos
  isAnimating,        \* CreatePlay state, prop of AnimatedScene
  wasAnimating,       \* AnimatedScene ref
  progressRef,        \* AnimatedScene ref
  animationEndedRef,  \* AnimatedScene ref
  visibleStepRef,     \* AnimatedScene ref
  groupPos,     \* position of each player's group, in authoring coordinates
  timers,       \* pending setTimeout callbacks, in scheduling order
  run,          \* number of runs started so far
  smoothed,     \* smoothing frames since the positions were last set exactly
  history,      \* per run: held, stopped, ended (notifications), heldFor (ms)
  event,        \* the handler that ran last
  published,    \* positions the interpolator returned to the last frame callback
                \* (the empty map before the first one)
  fresh,        \* a newly mounted scene fed the ticks of the current run
  currentStep,       \* CreatePlay state: the step being edited
  selectedPlayer,    \* CreatePlay state: id of the selected player
  createdFor,   \* per action: id of the player selected when it was appended
  tool,              \* CreatePlay state: the active tool
  pendingPosition,   \* CreatePlay state: team and role to place (NoPending: null)
  playerCount,       \* CreatePlay state: number of players per team
  targetStep,   \* step handed to the path resolver
  resolved      \* result of getPlayerPositionAtStep for every player

vars == <<phase, players, actions, speed, courtMode, argProgress, animated,
          argPoint, courtPt, backPt, isAnimating, wasAnimating, progressRef,
          animationEndedRef, visibleStepRef, groupPos, timers, run, smoothed,
          history, event, published, fresh, currentStep, selectedPlayer,
          createdFor, tool, pendingPosition, playerCount, targetStep, resolved>>

None == "none"

docVars == <<players, actions, speed, courtMode>>

interpVars == <<argProgress, animated>>

coordVars == <<argPoint, courtPt, backPt>>

refVars == <<wasAnimating, progressRef, animationEndedRef, visibleStepRef>>

driverVars == <<isAnimating, refVars, groupPos, timers, run, smoothed, history, event,
                published, fresh>>

placementVars == <<tool, pendingPosition, playerCount>>

editorVars == <<currentStep, selectedPlayer, createdFor, placementVars>>

NoPending == [team |-> None, position |-> None]

\* "playersData.filter((p) => p.team === ...).length"
TeamCount(pls, team) == Cardinality({i \in 1..Len(pls) : pls[i].team = team})

TeamCounts(pls) == [home |-> TeamCount(pls, "home"), away |-> TeamCount(pls, "away")]

resolveVars == <<targetStep, resolved>>

\* the editor as CreatePlay constructs it
EditorAtRest ==
  /\ currentStep = 0
  /\ selectedPlayer = None
  /\ tool = "select"
  /\ pendingPosition = NoPending
  /\ playerCount = TeamCounts(players)

\* the driver at rest, as constructed
DriverAtRest ==
  /\ isAnimating = FALSE
  /\ wasAnimating = FALSE
  /\ progressRef = R(0)
  /\ animationEndedRef = FALSE
  /\ visibleStepRef = -1
  /\ timers = <<>>
  /\ run = 0
  /\ smoothed = 0
  /\ history = <<>>
  /\ event = [kind |-> "init", dt |-> R(0), of |-> 0]
  /\ published = <<>>
  /\ fresh = None

(***************************************************************************)
(* Evaluation of the interpolator on a document (a pure function)          *)
(***************************************************************************)
InitInterp ==
  /\ phase = "input"
  /\ players \in PlayerChoices
  /\ actions \in Documents
  /\ speed \in Speeds
  /\ courtMode \in CourtModes
  /\ argProgress \in ProgressInputs
  /\ animated = None
  /\ argPoint = None /\ courtPt = None /\ backPt = None
  /\ DriverAtRest /\ groupPos = None
  /\ EditorAtRest /\ createdFor = <<>> /\ targetStep = None /\ resolved = None

Interpolate ==
  /\ phase = "input"
  /\ animated' = getAnimatedPlayerPositions(players, actions, argProgress,
                                            TotalSteps(actions), courtMode, speed)
  /\ phase' = "evaluated"
  /\ UNCHANGED <<docVars, argProgress, coordVars, driverVars, editorVars, resolveVars>>

NextInterp == Interpolate

SpecInterp == InitInterp /\ [][NextInterp]_vars

(***************************************************************************)
(* Evaluation of the coordinate mapper (pure functions)                    *)
(***************************************************************************)
InitCoord ==
  /\ phase = "input"
  /\ players = <<>> /\ actions = <<>> /\ speed = <<1, 2>>
  /\ courtMode \in CourtModes
  /\ argProgress = None /\ animated = None
  /\ argPoint \in {Pt(x, y) : x \in CoordXs, y \in CoordYs}
  /\ courtPt = None /\ backPt = None
  /\ DriverAtRest /\ groupPos = None
  /\ EditorAtRest /\ createdFor = <<>> /\ targetStep = None /\ resolved = None

ToCourt ==
  /\ phase = "input"
  /\ courtPt' = toCourtPos(argPoint.x, argPoint.y, courtMode)
  /\ phase' = "projected"
  /\ UNCHANGED <<docVars, interpVars, argPoint, backPt, driverVars, editorVars, resolveVars>>

FromCourt ==
  /\ phase = "projected"
  /\ backPt' = fromCourtPos(courtPt[1], courtPt[3], courtMode)
  /\ phase' = "unprojected"
  /\ UNCHANGED <<docVars, interpVars, argPoint, courtPt, driverVars, editorVars, resolveVars>>

NextCoord == ToCourt \/ FromCourt

SpecCoord == InitCoord /\ [][NextCoord]_vars

\* C8: coordinate round trip -- fromCourtPos(toCourtPos(x, y, mode), mode)
\* returns (x, y) in both modes, also for points outside the canvas.
RoundTrip ==
  phase = "unprojected" => backPt = <<argPoint.x, argPoint.y>>

RoundTripWitness ==
  /\ phase = "unprojected"
  /\ courtMode = "half"
  /\ argPoint = Pt(950, -50)
  /\ courtPt # <<argPoint.x, R(0), argPoint.y>>

(***************************************************************************)
(* Evaluation of the path resolver on a document (a pure function)         *)
(***************************************************************************)
InitResolve ==
  /\ phase = "input"
  /\ players \in PlayerChoices
  /\ actions \in Documents
  /\ speed = <<1, 2>>
  /\ courtMode = "half"
  /\ argProgress = None /\ animated = None
  /\ argPoint = None /\ courtPt = None /\ backPt = None
  /\ DriverAtRest /\ groupPos = None
  /\ EditorAtRest /\ createdFor = <<>>
  /\ targetStep \in 0..MaxTargetStep
  /\ resolved = None

Resolve ==
  /\ phase = "input"
  /\ resolved' = [id \in Ids(players) |->
                    getPlayerPositionAtStep(PlayerById(players, id), actions, targetStep)]
  /\ phase' = "resolved"
  /\ UNCHANGED <<docVars, interpVars, coordVars, driverVars, editorVars, targetStep>>

NextResolve == Resolve

SpecResolve == InitResolve /\ [][NextResolve]_vars

(***************************************************************************)
(* Animation driver: AnimatedScene (useEffect, useFrame), the isAnimating  *)
(* state of CreatePlay (toggleAnimation, onAnimationEnd) and the hold      *)
(* timer.  Group positions are kept in authoring coordinates: toCourtPos   *)
(* is affine and one-to-one, so copy and lerp commute with it.             *)
(* A timer may run once its delay has elapsed; frames arrive with any of   *)
(* the modelled durations, whether the scene is animating or not.          *)
(***************************************************************************)
HOLD_MS == 800

LERP_ALPHA == <<3, 20>>

DEFAULT_SPEED == <<1, 2>>

MaxRuns == 2

MaxSmooth == 2

\* frame durations in seconds
FrameDts == {<<2, 5>>, R(2)}

DriverPlayerChoices ==
  { <<>>,
    <<Player("p1", 0, 0)>>,
    <<Player("p1", 0, 0), Player("p2", 30, 30)>> }

DriverDocuments ==
  { <<>>,
    <<Act("move", Pt(0, 0), Pt(100, 0), 0, <<>>, R(0))>>,
    <<Act("move", Pt(0, 0), Pt(50, 0), 0, <<>>, R(0)),
      Act("move", Pt(50, 0), Pt(50, 50), 1, <<>>, R(0))>>,
    <<Act("dribble", Pt(0, 0), Pt(100, 0), 0, <<Pt(20, 40)>>, <<1, 2>>)>> }

Ms(dt) == RFloor(RMul(dt, R(1000)))

AgeBy(ms, age) == IF age + ms < HOLD_MS THEN age + ms ELSE HOLD_MS

NewRun == [held |-> FALSE, stopped |-> FALSE, scheduled |-> 0, ended |-> 0, heldFor |-> 0]

\* "position={pos}" of every player group: the resolved position at editingStep
EditingPositions(pls, acts, step) ==
  [id \in Ids(pls) |-> getPlayerPositionAtStep(PlayerById(pls, id), acts, step)]

\* a scene mounted now on the current document, before its first frame
FreshScene ==
  [progress |-> R(0), pos |-> EditingPositions(players, actions, currentStep),
   published |-> <<>>]

\* one animating frame of a scene sc = [progress, pos, published]
Tick(sc, dt) ==
  LET totalSteps == TotalSteps(actions)
      progress == RAdd(sc.progress, RMul(dt, speed))
      target(pr) == [id \in Ids(players) |->
                       AnimatedXY(PlayerById(players, id), actions, pr, totalSteps, speed)]
  IN  IF RLe(R(totalSteps), progress)
      THEN [progress |-> R(totalSteps), pos |-> target(R(totalSteps)),
            published |-> target(R(totalSteps))]
      ELSE [progress |-> progress,
            pos |-> [id \in Ids(players) |->
                       [x |-> Lerp(sc.pos[id].x, target(progress)[id].x, LERP_ALPHA),
                        y |-> Lerp(sc.pos[id].y, target(progress)[id].y, LERP_ALPHA)]],
            published |-> target(progress)]

InitDriver ==
  /\ phase = "driver"
  /\ players \in DriverPlayerChoices
  /\ actions \in DriverDocuments
  /\ speed = DEFAULT_SPEED
  /\ courtMode = "half"
  /\ argProgress = None /\ animated = None
  /\ argPoint = None /\ courtPt = None /\ backPt = None
  /\ DriverAtRest
  /\ EditorAtRest /\ targetStep = None /\ resolved = None
  /\ createdFor = [i \in 1..Len(actions) |-> "p1"]
  /\ groupPos = EditingPositions(players, actions, currentStep)

\* useEffect(..., [isAnimating]) run with the new value of isAnimating
Effect(nowAnimating) ==
  /\ progressRef' = IF nowAnimating /\ ~wasAnimating THEN R(0) ELSE progressRef
  /\ visibleStepRef' = IF nowAnimating /\ ~wasAnimating THEN -1 ELSE visibleStepRef
  /\ animationEndedRef' = IF nowAnimating /\ wasAnimating THEN animationEndedRef ELSE FALSE
  /\ wasAnimating' = nowAnimating

\* toggleAnimation while idle
Start ==
  /\ phase = "driver"
  /\ ~isAnimating
  /\ run < MaxRuns
  /\ isAnimating' = TRUE
  /\ Effect(TRUE)
  /\ run' = run + 1
  /\ history' = Append(history, NewRun)
  /\ event' = [kind |-> "start", dt |-> R(0), of |-> run + 1]
  /\ fresh' = FreshScene
  /\ UNCHANGED <<phase, docVars, interpVars, coordVars, groupPos, timers, smoothed,
                 published, editorVars, resolveVars>>

\* toggleAnimation while animating
Stop ==
  /\ phase = "driver"
  /\ isAnimating
  /\ isAnimating' = FALSE
  /\ Effect(FALSE)
  /\ history' = [history EXCEPT ![run].stopped = TRUE]
  /\ event' = [kind |-> "stop", dt |-> R(0), of |-> run]
  /\ UNCHANGED <<phase, docVars, interpVars, coordVars, groupPos, timers, run, smoothed,
                 published, fresh, editorVars, resolveVars>>

AgedTimers(ms) == [i \in 1..Len(timers) |-> [timers[i] EXCEPT !.age = AgeBy(ms, @)]]

AgedHistory(ms) ==
  [r \in 1..Len(history) |->
     IF history[r].held THEN [history[r] EXCEPT !.heldFor = AgeBy(ms, @)] ELSE history[r]]

\* mutant: the frame callback without the ended guard
FrameReturnsEarlyNoEndedGuard == ~isAnimating

\* "if (!isAnimating || animationEndedRef.current) return;"
FrameReturnsEarly == ~isAnimating \/ animationEndedRef

\* mutant: progress is left where the last increment put it
EndProgressUnclamped(progress, totalSteps) == progress

\* "progressRef.current = totalSteps"
EndProgress(progress, totalSteps) == R(totalSteps)

\* useFrame callback
Frame(dt) ==
  /\ phase = "driver"
  /\ event' = [kind |-> "frame", dt |-> dt, of |-> run]
  /\ IF FrameReturnsEarly
     THEN /\ timers' = AgedTimers(Ms(dt))
          /\ history' = AgedHistory(Ms(dt))
          /\ UNCHANGED <<refVars, groupPos, smoothed, published, fresh>>
     ELSE LET totalSteps == TotalSteps(actions)
              progress == RAdd(progressRef, RMul(dt, speed))
          IN  IF RLe(R(totalSteps), progress)
              THEN /\ progressRef' = EndProgress(progress, totalSteps)
                   /\ visibleStepRef' = totalSteps
                   /\ groupPos' = [id \in Ids(players) |->
                        AnimatedXY(PlayerById(players, id), actions, R(totalSteps),
                                   totalSteps, speed)]
                   /\ published' = [id \in Ids(players) |->
                        AnimatedXY(PlayerById(players, id), actions, R(totalSteps),
                                   totalSteps, speed)]
                   /\ fresh' = Tick(fresh, dt)
                   /\ animationEndedRef' = TRUE
                   /\ timers' = Append(AgedTimers(Ms(dt)), [of |-> run, age |-> 0])
                   /\ history' = [AgedHistory(Ms(dt)) EXCEPT
                                    ![run].held = TRUE,
                                    ![run].scheduled = @ + 1,
                                    ![run].heldFor = IF history[run].held THEN @ ELSE 0]
                   /\ smoothed' = 0
                   /\ UNCHANGED wasAnimating
              ELSE /\ smoothed < MaxSmooth
                   /\ progressRef' = progress
                   /\ visibleStepRef' = RFloor(progress)
                   /\ groupPos' = [id \in Ids(players) |->
                        LET t == AnimatedXY(PlayerById(players, id), actions, progress,
                                            totalSteps, speed)
                        IN  [x |-> Lerp(groupPos[id].x, t.x, LERP_ALPHA),
                             y |-> Lerp(groupPos[id].y, t.y, LERP_ALPHA)]]
                   /\ published' = [id \in Ids(players) |->
                        AnimatedXY(PlayerById(players, id), actions, progress,
                                   totalSteps, speed)]
                   /\ fresh' = Tick(fresh, dt)
                   /\ smoothed' = smoothed + 1
                   /\ timers' = AgedTimers(Ms(dt))
                   /\ history' = AgedHistory(Ms(dt))
                   /\ UNCHANGED <<wasAnimating, animationEndedRef>>
  /\ UNCHANGED <<phase, docVars, interpVars, coordVars, isAnimating, run,
                 editorVars, resolveVars>>

\* the setTimeout callback: onAnimationEnd(), i.e. setIsAnimating(false)
TimerFire ==
  /\ phase = "driver"
  /\ timers # <<>>
  /\ Head(timers).age >= HOLD_MS
  /\ timers' = Tail(timers)
  /\ history' = [history EXCEPT ![Head(timers).of].ended = @ + 1]
  /\ event' = [kind |-> "timer", dt |-> R(0), of |-> Head(timers).of]
  /\ isAnimating' = FALSE
  /\ IF isAnimating THEN Effect(FALSE) ELSE UNCHANGED refVars
  /\ UNCHANGED <<phase, docVars, interpVars, coordVars, groupPos, run, smoothed,
                 published, fresh, editorVars, resolveVars>>

(***************************************************************************)
(* Editor: the handlers of CreatePlay that change the play document, the   *)
(* current step and the selection.  The document is edited between runs    *)
(* only (it is read-only during playback).  Players are on the court from  *)
(* the start; the placement tools are not modelled.                        *)
(* The active tool, the type of the free path and the points drawn so far  *)
(* are inputs of the click that uses them: every tool can be chosen, and   *)
(* every list of points drawn, right before that click, and nothing else   *)
(* reads them.  An action is removed or re-timed by its position in the    *)
(* list, which stands for its unique id.                                   *)
(***************************************************************************)
MaxEditorActions == 2

MaxStep == 1

MaxWaypoints == 2

REMOVE_TOLERANCE == 30

SCREEN_OFFSET == 30

Tools == {"select", "move", "pass", "screen", "screen-player", "dribble", "draw-path"}

ClickPoints == {Pt(100, 0)}

\* drawingWaypoints when the path is finished: 1 .. MaxWaypoints clicked points
DrawnPaths == SeqsUpTo(ClickPoints, MaxWaypoints) \ {<<>>}

\* values the delay slider can give: 0 .. maxDelay = 3 in steps of 0.25
EditorDelays == {<<1, 2>>, R(3)}

EditorPlayerChoices ==
  { <<Player("p1", 0, 0)>>,
    <<Player("p1", 0, 0), Player("p2", 30, 30)>> }

\* the groups after a render: a group whose position prop changed is moved to
\* it, every other group stays where it is
Rerendered(pls, acts, step) ==
  [id \in Ids(pls) |->
     IF /\ id \in Ids(players)
        /\ EditingPositions(pls, acts, step)[id] =
           EditingPositions(players, actions, currentStep)[id]
     THEN groupPos[id]
     ELSE EditingPositions(pls, acts, step)[id]]

Edited == [kind |-> "edit", dt |-> R(0), of |-> run]

\* the parts of an editor step that are the same for every handler
EditorStep ==
  /\ phase \in {"editor", "driver"}
  /\ ~isAnimating
  /\ event' = Edited
  /\ groupPos' = Rerendered(players', actions', currentStep')
  /\ UNCHANGED <<phase, speed, courtMode, interpVars, coordVars, isAnimating, refVars,
                 timers, run, smoothed, history, published, fresh, resolveVars>>

InitEditor ==
  /\ phase = "editor"
  /\ players \in EditorPlayerChoices
  /\ actions = <<>>
  /\ speed = DEFAULT_SPEED
  /\ courtMode = "half"
  /\ argProgress = None /\ animated = None
  /\ argPoint = None /\ courtPt = None /\ backPt = None
  /\ DriverAtRest
  /\ EditorAtRest /\ createdFor = <<>> /\ targetStep = None /\ resolved = None
  /\ groupPos = EditingPositions(players, actions, currentStep)

\* mutant: the new action is put in front of the list
AppendActionAtFront(type, to, waypoints) ==
  LET pos == getPlayerPositionAtStep(PlayerById(players, selectedPlayer), actions,
                                     currentStep)
  IN  /\ actions' = <<Act(type, pos, to, currentStep, waypoints, R(0))>> \o actions
      /\ createdFor' = <<selectedPlayer>> \o createdFor

\* "[...prev, {type, fromX: pos.x, ..., stepIndex: currentStep, waypoints}]"
AppendAction(type, to, waypoints) ==
  LET pos == getPlayerPositionAtStep(PlayerById(players, selectedPlayer), actions,
                                     currentStep)
  IN  /\ actions' = Append(actions, Act(type, pos, to, currentStep, waypoints, R(0)))
      /\ createdFor' = Append(createdFor, selectedPlayer)

\* a click on the court with the select tool or with an action tool
handleCourtClick(withTool, pt) ==
  /\ withTool \in Tools /\ pt \in ClickPoints
  /\ IF withTool = "select"
     THEN /\ selectedPlayer # None
          /\ selectedPlayer' = None
          /\ UNCHANGED <<actions, createdFor>>
     ELSE /\ withTool \in {"screen", "pass", "move", "dribble"}
          /\ selectedPlayer # None
          /\ Len(actions) < MaxEditorActions
          /\ AppendAction(withTool, pt, <<>>)
          /\ UNCHANGED selectedPlayer
  /\ UNCHANGED <<players, currentStep, placementVars>>
  /\ EditorStep

handlePlayerClick(withTool, id) ==
  /\ withTool \in Tools /\ id \in Ids(players)
  /\ IF withTool = "screen-player" /\ selectedPlayer # None /\ id # selectedPlayer
     THEN LET screenerPos == getPlayerPositionAtStep(PlayerById(players, selectedPlayer),
                                                     actions, currentStep)
              targetPos == getPlayerPositionAtStep(PlayerById(players, id), actions,
                                                   currentStep)
              offsetX == RAdd(targetPos.x,
                              IF RLt(targetPos.x, screenerPos.x)
                              THEN R(-SCREEN_OFFSET) ELSE R(SCREEN_OFFSET))
          IN  /\ Len(actions) < MaxEditorActions
              /\ AppendAction("screen", [x |-> offsetX, y |-> targetPos.y], <<>>)
              /\ UNCHANGED selectedPlayer
     ELSE /\ selectedPlayer' = id
          /\ UNCHANGED <<actions, createdFor>>
  /\ UNCHANGED <<players, currentStep, placementVars>>
  /\ EditorStep

finishDrawPath(drawPathType, drawingWaypoints) ==
  /\ drawPathType \in {"move", "dribble"} /\ drawingWaypoints \in DrawnPaths
  /\ selectedPlayer # None
  /\ Len(actions) < MaxEditorActions
  /\ AppendAction(drawPathType, drawingWaypoints[Len(drawingWaypoints)],
                  SubSeq(drawingWaypoints, 1, Len(drawingWaypoints) - 1))
  /\ UNCHANGED <<players, currentStep, selectedPlayer, placementVars>>
  /\ EditorStep

\* indices of the actions that "filter" keeps
Kept(keep(_)) == {i \in 1..Len(actions) : keep(actions[i])}

RECURSIVE Filtered(_, _, _)
Filtered(seq, K, i) ==
  IF i > Len(seq) THEN <<>>
  ELSE (IF i \in K THEN <<seq[i]>> ELSE <<>>) \o Filtered(seq, K, i + 1)

removeSelectedPlayer ==
  /\ selectedPlayer # None
  /\ LET player == PlayerById(players, selectedPlayer)
         keep(a) == ~( /\ RLt(RAbs(RSub(a.fromX, player.x)), R(REMOVE_TOLERANCE))
                       /\ RLt(RAbs(RSub(a.fromY, player.y)), R(REMOVE_TOLERANCE)) )
     IN  /\ players' = Filtered(players, {i \in 1..Len(players) :
                                            players[i].id # selectedPlayer}, 1)
         /\ actions' = Filtered(actions, Kept(keep), 1)
         /\ createdFor' = Filtered(createdFor, Kept(keep), 1)
         /\ playerCount' = [playerCount EXCEPT ![player.team] = @ - 1]
  /\ selectedPlayer' = None
  /\ UNCHANGED <<currentStep, tool, pendingPosition>>
  /\ EditorStep

undoLastAction ==
  /\ Len(actions) > 0
  /\ actions' = SubSeq(actions, 1, Len(actions) - 1)
  /\ createdFor' = SubSeq(createdFor, 1, Len(createdFor) - 1)
  /\ UNCHANGED <<players, currentStep, selectedPlayer, placementVars>>
  /\ EditorStep

\* the delay slider of an action listed for the current step
updateActionDelay(i, delay) ==
  /\ i \in 1..Len(actions) /\ delay \in EditorDelays
  /\ actions[i].stepIndex = currentStep
  /\ actions' = [actions EXCEPT ![i].delay = delay]
  /\ UNCHANGED <<players, currentStep, selectedPlayer, createdFor, placementVars>>
  /\ EditorStep

\* the remove button of an action listed for the current step
onRemoveAction(i) ==
  /\ i \in 1..Len(actions)
  /\ actions[i].stepIndex = currentStep
  /\ actions' = Filtered(actions, (1..Len(actions)) \ {i}, 1)
  /\ createdFor' = Filtered(createdFor, (1..Len(actions)) \ {i}, 1)
  /\ UNCHANGED <<players, currentStep, selectedPlayer, placementVars>>
  /\ EditorStep

\* previous step, next step, and the dot of step i
setCurrentStep(step) ==
  /\ step \in 0..MaxStep
  /\ \/ step = currentStep - 1
     \/ step = currentStep + 1
     \/ TotalSteps(actions) > 1 /\ step < TotalSteps(actions)
  /\ currentStep' = step
  /\ UNCHANGED <<players, actions, selectedPlayer, createdFor, placementVars>>
  /\ EditorStep

clearAll ==
  /\ players' = <<>> /\ actions' = <<>> /\ createdFor' = <<>>
  /\ playerCount' = [home |-> 0, away |-> 0]
  /\ currentStep' = 0 /\ selectedPlayer' = None
  /\ UNCHANGED <<tool, pendingPosition>>
  /\ EditorStep

NextEditor ==
  \/ \E t \in Tools, pt \in ClickPoints : handleCourtClick(t, pt)
  \/ \E t \in Tools, id \in Ids(players) : handlePlayerClick(t, id)
  \/ \E t \in {"move", "dribble"}, w \in DrawnPaths : finishDrawPath(t, w)
  \/ removeSelectedPlayer
  \/ undoLastAction
  \/ \E i \in 1..Len(actions), d \in EditorDelays : updateActionDelay(i, d)
  \/ \E i \in 1..Len(actions) : onRemoveAction(i)
  \/ \E step \in 0..MaxStep : setCurrentStep(step)
  \/ clearAll

SpecEditor == InitEditor /\ [][NextEditor]_vars

(***************************************************************************)
(* Placement: the role buttons and the court click that puts a player on   *)
(* the court.  Here the active tool and the pending role are state: a role *)
(* stays pending until a player is placed.  No action is added; the tool   *)
(* is one of select, player-offense and player-defense.                    *)
(***************************************************************************)
Teams == {"home", "away"}

\* the role buttons pressed
OfferedPositions == {"PG", "SG"}

PlacementTools == {"player-offense", "player-defense"}

\* crypto.randomUUID(): a name no other player on the court has (a player
\* that was removed is referred to nowhere, its name can be given again)
NewId ==
  [home |-> [PG |-> "h1", SG |-> "h2", SF |-> "h3", PF |-> "h4", C |-> "h5"],
   away |-> [PG |-> "a1", SG |-> "a2", SF |-> "a3", PF |-> "a4", C |-> "a5"]]

\* "disabled={placed}" of a role button
placed(team, pos) ==
  \E i \in 1..Len(players) : players[i].team = team /\ players[i].position = pos

\* "players.some(p => p.team === team && p.position === position)"
alreadyPlaced(team, position) ==
  \E i \in 1..Len(players) : players[i].team = team /\ players[i].position = position

\* mutant: every new player gets the first role
newPlayerFirstRole(pt, team, position) ==
  CourtPlayer(NewId[team][position], pt.x, pt.y,
              1, team, POSITIONS[1])

newPlayer(pt, team, position) ==
  CourtPlayer(NewId[team][position], pt.x, pt.y,
              CHOOSE n \in 1..Len(POSITIONS) : POSITIONS[n] = position, team, position)

\* a role button that is not disabled
choosePosition(team, pos) ==
  /\ team \in Teams /\ pos \in OfferedPositions
  /\ ~placed(team, pos)
  /\ pendingPosition' = [team |-> team, position |-> pos]
  /\ tool' = IF team = "home" THEN "player-offense" ELSE "player-defense"
  /\ UNCHANGED <<players, actions, createdFor, currentStep, selectedPlayer, playerCount>>
  /\ EditorStep

\* the button of the select tool
selectTool ==
  /\ tool' = "select"
  /\ UNCHANGED <<players, actions, createdFor, currentStep, selectedPlayer,
                 pendingPosition, playerCount>>
  /\ EditorStep

\* a click on the court with a placement tool or the select tool
placeOnCourtClick(pt) ==
  /\ pt \in ClickPoints
  /\ IF tool \in PlacementTools /\ pendingPosition # NoPending
     THEN LET team == pendingPosition.team
              position == pendingPosition.position
          IN  IF alreadyPlaced(team, position)
              THEN UNCHANGED <<players, playerCount, pendingPosition, tool, selectedPlayer>>
              ELSE /\ players' = Append(players, newPlayer(pt, team, position))
                   /\ playerCount' = [playerCount EXCEPT ![team] = @ + 1]
                   /\ pendingPosition' = NoPending
                   /\ tool' = "select"
                   /\ UNCHANGED selectedPlayer
     ELSE /\ tool = "select"
          /\ selectedPlayer' = None
          /\ UNCHANGED <<players, playerCount, pendingPosition, tool>>
  /\ UNCHANGED <<actions, createdFor, currentStep>>
  /\ EditorStep

\* a click on a player with a placement tool or the select tool
selectOnPlayerClick(id) ==
  /\ id \in Ids(players)
  /\ tool # "screen-player"
  /\ selectedPlayer' = id
  /\ tool' = IF tool \in PlacementTools THEN "select" ELSE tool
  /\ UNCHANGED <<players, actions, createdFor, currentStep, pendingPosition, playerCount>>
  /\ EditorStep

InitPlacement ==
  /\ phase = "editor"
  /\ players = <<>>
  /\ actions = <<>>
  /\ speed = DEFAULT_SPEED
  /\ courtMode = "half"
  /\ argProgress = None /\ animated = None
  /\ argPoint = None /\ courtPt = None /\ backPt = None
  /\ DriverAtRest
  /\ EditorAtRest /\ createdFor = <<>> /\ targetStep = None /\ resolved = None
  /\ groupPos = EditingPositions(players, actions, currentStep)

NextPlacement ==
  \/ \E team \in Teams, pos \in OfferedPositions : choosePosition(team, pos)
  \/ selectTool
  \/ \E pt \in ClickPoints : placeOnCourtClick(pt)
  \/ \E id \in Ids(players) : selectOnPlayerClick(id)
  \/ removeSelectedPlayer
  \/ clearAll

SpecPlacement == InitPlacement /\ [][NextPlacement]_vars

\* the driver, with the last action undone between runs
NextDriver ==
  \/ Start \/ Stop \/ (\E dt \in FrameDts : Frame(dt)) \/ TimerFire
  \/ undoLastAction

SpecDriver == InitDriver /\ [][NextDriver]_vars

(***************************************************************************)
(* The driver under fair scheduling: the frame callback keeps being called *)
(* and a timer whose delay has elapsed is eventually run.  Frames last     *)
(* LIVE_DT seconds, so that no run needs more smoothing frames than        *)
(* MaxSmooth allows.                                                       *)
(* Weak fairness of the frame callback is written out, as                  *)
(*   []<>(~ENABLED <<Frame>>_vars) \/ []<><<Frame>>_vars,                   *)
(* with the enabling condition and the step told from the state.           *)
(***************************************************************************)
LIVE_DT == R(2)

NextDriverLive ==
  \/ Start \/ Stop \/ Frame(LIVE_DT) \/ TimerFire

\* a frame of LIVE_DT seconds can be taken and changes the state
FrameEnabled ==
  /\ phase = "driver"
  /\ IF FrameReturnsEarly
     THEN \/ event # [kind |-> "frame", dt |-> LIVE_DT, of |-> run]
          \/ timers # AgedTimers(Ms(LIVE_DT))
          \/ history # AgedHistory(Ms(LIVE_DT))
     ELSE \/ RLe(R(TotalSteps(actions)), RAdd(progressRef, RMul(LIVE_DT, speed)))
          \/ smoothed < MaxSmooth

\* the step is a frame (every other handler leaves another kind of event)
FrameTaken == event'.kind = "frame"

FrameFairness == []<>(~FrameEnabled) \/ []<><<FrameTaken>>_vars

SpecDriverLive ==
  /\ InitDriver
  /\ [][NextDriverLive]_vars
  /\ FrameFairness
  /\ WF_vars(TimerFire)

(***************************************************************************)
(* Properties of the interpolator                                          *)
(***************************************************************************)
Evaluated == phase = "evaluated"

ArgStep == RFloor(argProgress)

ArgFrac == RSub(argProgress, R(ArgStep))

CourtOf(pt) == toCourtPos(pt.x, pt.y, courtMode)

ResolvedAt(id, k) == getPlayerPositionAtStep(PlayerById(players, id), actions, k)

\* index of the action in flight for a player at the evaluated progress (0: none)
InFlight(id) ==
  IF ArgStep >= TotalSteps(actions) THEN 0
  ELSE AnimFindAction(actions, ArgStep, ResolvedAt(id, ArgStep).x, ResolvedAt(id, ArgStep).y)

InFlightEff(id) ==
  EffectiveFrac(ArgStep, ArgStep, ArgFrac, DelayFrac(actions[InFlight(id)].delay, speed))

\* C2: at progress = totalSteps the interpolator yields, for every player, the
\* position resolvePositionAtStep(p, actions, totalSteps), whatever the delays
\* and waypoints of the actions.
FullResolution ==
  (Evaluated /\ argProgress = R(TotalSteps(actions))) =>
    \A id \in Ids(players) :
      animated[id] = CourtOf(ResolvedAt(id, TotalSteps(actions)))

FullResolutionWitness ==
  /\ Evaluated
  /\ argProgress = R(2)
  /\ TotalSteps(actions) = 2
  /\ \E i \in 1..Len(actions) :
       actions[i].waypoints # <<>> /\ actions[i].delay # R(0)
  /\ "p1" \in Ids(players)
  /\ animated["p1"] = CourtOf(Pt(0, 50))

\* C3: for floor(progress) = s < totalSteps every step before s is fully
\* applied: the walk reaches step s at resolvePositionAtStep(p, actions, s) and
\* the result depends on the earlier steps only through that position; for
\* (0,0)->(50,0), (50,0)->(50,50) the position at progress 1.5 is (50,25).
PriorStepsApplied ==
  (Evaluated /\ ArgStep < TotalSteps(actions)) =>
    /\ \A id \in Ids(players) :
         LET p == PlayerById(players, id)
             base == ResolvedAt(id, ArgStep)
             i == AnimFindAction(actions, ArgStep, base.x, base.y)
         IN  /\ AnimWalk([x |-> p.x, y |-> p.y], actions, 0, ArgStep - 1,
                         ArgStep, ArgFrac, speed) = base
             /\ animated[id] =
                  CourtOf(IF i = 0 THEN base
                          ELSE ApplyAction(base, actions[i], ArgStep, ArgStep, ArgFrac, speed))
    /\ ( /\ players = <<Player("p1", 0, 0)>>
         /\ actions = <<Act("move", Pt(0, 0), Pt(50, 0), 0, <<>>, R(0)),
                        Act("move", Pt(50, 0), Pt(50, 50), 1, <<>>, R(0))>>
         /\ argProgress = <<3, 2>> )
       => animated["p1"] = CourtOf(Pt(50, 25))

PriorStepsAppliedWitness ==
  /\ Evaluated
  /\ players = <<Player("p1", 0, 0)>>
  /\ actions = <<Act("move", Pt(0, 0), Pt(50, 0), 0, <<>>, R(0)),
                 Act("move", Pt(50, 0), Pt(50, 50), 1, <<>>, R(0))>>
  /\ argProgress = <<3, 2>>
  /\ animated["p1"] = CourtOf(Pt(50, 25))

\* authoring-space point of a player's evaluated position (inverse mapping)
XYOf(v) ==
  LET b == fromCourtPos(v[1], v[3], courtMode) IN [x |-> b[1], y |-> b[2]]

\* C4 (as stated): with delayFrac = delay*speed < 1 the player of an in-flight
\* action is exactly at the action's from point for every stepFrac < delayFrac,
\* and is away from it only for stepFrac > delayFrac.
DelayGatingAtFrom ==
  Evaluated =>
    \A id \in Ids(players) :
      InFlight(id) # 0 =>
        LET a == actions[InFlight(id)]
            ds == RMul(a.delay, speed)
        IN  RLt(ds, R(1)) =>
              /\ RLt(ArgFrac, ds) => animated[id] = CourtOf(FromOf(a))
              /\ animated[id] # CourtOf(FromOf(a)) => RLt(ds, ArgFrac)

Clamp(v, lo, hi) == RMin(RMax(v, lo), hi)

\* C5: the delay fraction is delay*speed clamped into [0, 0.99], so that
\* 1 - delayFrac > 0 and effectiveFrac = clamp((stepFrac - delayFrac) /
\* (1 - delayFrac), 0, 1) is 0 while stepFrac < delayFrac and stays below 1
\* within the step.
DelayFracClamped ==
  Evaluated =>
    \A d \in SliderDelays :
      LET df == DelayFrac(d, speed)
          ef == EffectiveFrac(ArgStep, ArgStep, ArgFrac, df)
      IN  /\ df = Clamp(RMul(d, speed), R(0), <<99, 100>>)
          /\ RLt(R(0), RSub(R(1), df))
          /\ ef = Clamp(RDiv(RSub(ArgFrac, df), RSub(R(1), df)), R(0), R(1))
          /\ RLt(ArgFrac, df) => ef = R(0)
          /\ RLt(ef, R(1))
          /\ \A id \in Ids(players) :
               (InFlight(id) # 0 /\ actions[InFlight(id)].delay = d /\ ef = R(0))
                 => animated[id] = CourtOf(ResolvedAt(id, ArgStep))

\* a clamped delay (3 s at any speed) with motion under way late in the step
DelayFracClampedWitness ==
  /\ Evaluated
  /\ \E id \in Ids(players) :
       /\ InFlight(id) # 0
       /\ actions[InFlight(id)].delay = R(3)
       /\ DelayFrac(R(3), speed) = <<99, 100>>
       /\ InFlightEff(id) = <<1, 2>>
       /\ animated[id] # CourtOf(ResolvedAt(id, ArgStep))

\* C6: an in-flight action with k waypoints is traversed as k+1 equal-duration
\* segments: at effectiveFrac = i/(k+1) the player is exactly at waypoint i.
WaypointSegmentation ==
  Evaluated =>
    \A id \in Ids(players) :
      InFlight(id) # 0 =>
        LET a == actions[InFlight(id)]
            k == Len(a.waypoints)
        IN  \A i \in 1..k :
              InFlightEff(id) = Norm(i, k + 1) => animated[id] = CourtOf(a.waypoints[i])

WaypointSegmentationWitness ==
  /\ Evaluated
  /\ \E id \in Ids(players) :
       /\ InFlight(id) # 0
       /\ Len(actions[InFlight(id)].waypoints) = 2
       /\ InFlightEff(id) = <<2, 3>>
       /\ animated[id] = CourtOf(Pt(60, 20))

\* progress along the straight segment from -> to (unnormalised projection)
Along(a, pt) ==
  RAdd(RMul(RSub(pt.x, a.fromX), RSub(a.toX, a.fromX)),
       RMul(RSub(pt.y, a.fromY), RSub(a.toY, a.fromY)))

\* C7 (as stated): for a single action without waypoints and delay 0 the
\* position is from at effectiveFrac = 0, to at effectiveFrac = 1, and never
\* moves backwards along from -> to as effectiveFrac grows.
MonotonicConvergence ==
  ( /\ Evaluated
    /\ Len(actions) = 1
    /\ actions[1].waypoints = <<>>
    /\ actions[1].delay = R(0) ) =>
    \A id \in Ids(players) :
      InFlight(id) # 0 =>
        LET a == actions[1]
            p == PlayerById(players, id)
        IN  /\ ArgFrac = R(0) => animated[id] = CourtOf(FromOf(a))
            /\ AnimatedXY(p, actions, R(ArgStep + 1), TotalSteps(actions), speed) = ToOf(a)
            /\ \A f \in StepFracs :
                 RLe(ArgFrac, f) =>
                   RLe(Along(a, XYOf(animated[id])),
                       Along(a, AnimatedXY(p, actions, RAdd(R(ArgStep), f),
                                           TotalSteps(actions), speed)))

(***************************************************************************)
(* Properties of the driver                                                *)
(***************************************************************************)
Idle == ~isAnimating

Running == isAnimating /\ ~animationEndedRef

Holding == isAnimating /\ animationEndedRef

Runs == 1..Len(history)

PendingOf(r) == Cardinality({i \in 1..Len(timers) : timers[i].of = r})

\* C1 (as stated): once a run has been stopped, in Running or in Holding, no
\* "animation ended" notification is delivered for it.
NoNotificationAfterStop ==
  \A r \in Runs : history[r].stopped => history[r].ended = 0

\* C9: the first tick with progress + dt*speed >= totalSteps sets progress to
\* totalSteps, sets every group to the fully resolved final position (no
\* smoothing) and enters Holding; ticks during Holding change neither progress
\* nor the positions.
HoldingEntry ==
  /\ [][ ( /\ event'.kind = "frame"
           /\ Running
           /\ RLe(R(TotalSteps(actions)), RAdd(progressRef, RMul(event'.dt, speed))) )
         => ( /\ progressRef' = R(TotalSteps(actions))
              /\ groupPos' = [id \in Ids(players) |-> ResolvedAt(id, TotalSteps(actions))]
              /\ isAnimating' /\ animationEndedRef' ) ]_vars
  /\ [][ (event'.kind = "frame" /\ Holding)
         => (Holding' /\ UNCHANGED <<progressRef, groupPos>>) ]_vars

\* Holding entered after smoothed frames, then one more frame during the hold
HoldingEntryWitness ==
  /\ Holding
  /\ event.kind = "frame"
  /\ history[run].heldFor > 0
  /\ TotalSteps(actions) = 2
  /\ progressRef = R(2)
  /\ "p1" \in Ids(players)
  /\ groupPos["p1"] = Pt(50, 50)

\* C10: a run that enters Holding schedules exactly one notification, which
\* is delivered once, not before the 800 ms hold has elapsed, and leaves the
\* driver Idle; no run gets a second one however many frames the hold sees.
OneNotificationPerRun ==
  /\ [](\A r \in Runs :
          /\ history[r].scheduled = (IF history[r].held THEN 1 ELSE 0)
          /\ history[r].ended + PendingOf(r) = history[r].scheduled)
  /\ [][ event'.kind = "timer" /\ history' # history
         => ( /\ history[event'.of].held
              /\ history[event'.of].heldFor >= HOLD_MS
              /\ history'[event'.of].ended = 1
              /\ Idle' ) ]_vars

\* a run that was never stopped got its one notification after frames in Holding
OneNotificationPerRunWitness ==
  /\ Idle
  /\ event.kind = "timer"
  /\ event.of = run
  /\ history[run].held /\ ~history[run].stopped
  /\ history[run].ended = 1
  /\ history[run].heldFor = HOLD_MS
  /\ timers = <<>>

\* C11 (as stated): after stop() the driver is Idle with progress = 0, and
\* while it is Idle no frame changes progress or the positions.
StopLeavesIdleAtZero ==
  /\ [](event.kind = "stop" => (Idle /\ progressRef = R(0)))
  /\ [][ (Idle /\ event'.kind = "frame")
         => UNCHANGED <<progressRef, groupPos, published>> ]_vars

\* the current run was started after a run that was stopped mid-animation
Restarted == run > 1 /\ history[run - 1].stopped /\ ~history[run - 1].held

\* C12 (as stated): a start after a stop mid-animation resets progress to 0,
\* and every tick of the restarted run leaves the groups where the same ticks
\* leave those of a fresh scene on the same document.
RestartReproducesFreshRun ==
  /\ [][ event'.kind = "start" => progressRef' = R(0) ]_vars
  /\ [][ (event'.kind = "frame" /\ Running /\ Restarted)
         => groupPos' = fresh'.pos ]_vars

\* What a restart does reproduce: at every tick the restarted run has the
\* progress of a fresh run fed the same tick durations and is handed the same
\* interpolator positions, and it enters Holding at the same tick with the
\* same final group positions.
RestartReproducesTargets ==
  /\ [][ event'.kind = "start" => (progressRef' = R(0) /\ Running') ]_vars
  /\ [][ (event'.kind = "frame" /\ Running /\ Restarted)
         => ( /\ progressRef' = fresh'.progress
              /\ published' = fresh'.published
              /\ Holding' <=> fresh'.progress = R(TotalSteps(actions))
              /\ Holding' => groupPos' = fresh'.pos ) ]_vars

\* C13 (as stated): 0 <= progress <= totalSteps in every state; progress never
\* decreases from one tick of a run to the next; every transition into Running
\* sets progress to 0.
ProgressWithinTotalSteps ==
  /\ [](RLe(R(0), progressRef) /\ RLe(progressRef, R(TotalSteps(actions))))
  /\ [][ (event'.kind = "frame" /\ isAnimating) => RLe(progressRef, progressRef') ]_vars
  /\ [][ (~Running /\ Running') => progressRef' = R(0) ]_vars

\* base position of a player
BaseOf(id) == [x |-> PlayerById(players, id).x, y |-> PlayerById(players, id).y]

TotalStepsDefensive ==
  LET n == TotalSteps(actions)
  IN  /\ n >= 1
      /\ actions = <<>> => n = 1
      /\ \A i \in 1..Len(actions) : actions[i].stepIndex < n
      /\ actions # <<>> => \E i \in 1..Len(actions) : actions[i].stepIndex = n - 1
      /\ \A pr \in ProgressInputs :
           /\ LoopLast(RFloor(pr), n) >= 0
           /\ LoopLast(RFloor(pr), n) <= n - 1

\* the highest step is not that of the last action of the list
TotalStepsDefensiveWitness ==
  /\ phase = "editor"
  /\ Len(actions) = 2
  /\ actions[1].stepIndex = 1 /\ actions[2].stepIndex = 0
  /\ TotalSteps(actions) = 2
  /\ currentStep = 0

(***************************************************************************)
(* Properties of the path resolver                                         *)
(***************************************************************************)
Resolved == phase = "resolved"

\* the actions a walk up to targetStep can read
Before(acts, k) == Filtered(acts, {i \in 1..Len(acts) : acts[i].stepIndex < k}, 1)

\* C16: resolvePositionAtStep(p, A, 0) is the base position; the position at
\* K + 1 is the to-point of the first action of step K of type move, dribble or
\* screen whose from is within the tolerance on both axes of the position at K,
\* and the position at K when there is none; actions with stepIndex >=
\* targetStep do not influence the result.
PathResolverRecursion ==
  Resolved =>
    \A id \in Ids(players) :
      LET p == PlayerById(players, id)
      IN  /\ getPlayerPositionAtStep(p, actions, 0) = BaseOf(id)
          /\ targetStep = 0 => resolved[id] = BaseOf(id)
          /\ targetStep > 0 =>
               LET prev == getPlayerPositionAtStep(p, actions, targetStep - 1)
                   S == {i \in 1..Len(actions) :
                           /\ actions[i].stepIndex = targetStep - 1
                           /\ actions[i].type \in {"move", "dribble", "screen"}
                           /\ RLt(RAbs(RSub(actions[i].fromX, prev.x)), R(50))
                           /\ RLt(RAbs(RSub(actions[i].fromY, prev.y)), R(50))}
               IN  resolved[id] =
                     IF S = {} THEN prev
                     ELSE ToOf(actions[CHOOSE i \in S : \A j \in S : i <= j])
          /\ resolved[id] = getPlayerPositionAtStep(p, Before(actions, targetStep),
                                                    targetStep)

\* two chained steps resolved, the second one matched by tolerance only
PathResolverRecursionWitness ==
  /\ Resolved
  /\ targetStep = 2
  /\ players = <<Player("p1", 30, 30)>>
  /\ actions = <<Act("move", Pt(0, 0), Pt(50, 0), 0, <<>>, R(0)),
                 Act("screen", Pt(50, 0), Pt(0, 50), 1, <<Pt(40, 40)>>, R(3))>>
  /\ resolved["p1"] = Pt(0, 50)

(***************************************************************************)
(* Action types                                                            *)
(***************************************************************************)
\* the document with every action of a type in T given the type t
WithType(acts, T, t) ==
  [i \in 1..Len(acts) |-> IF acts[i].type \in T THEN [acts[i] EXCEPT !.type = t]
                          ELSE acts[i]]

WithoutPasses(acts) == Filtered(acts, {i \in 1..Len(acts) : acts[i].type # "pass"}, 1)

\* both components give the same positions on the documents a and b
SameMotion(a, b) ==
  /\ getAnimatedPlayerPositions(players, a, argProgress, TotalSteps(actions),
                                courtMode, speed)
       = getAnimatedPlayerPositions(players, b, argProgress, TotalSteps(actions),
                                    courtMode, speed)
  /\ \A k \in 0..MaxTargetStep : \A id \in Ids(players) :
       getPlayerPositionAtStep(PlayerById(players, id), a, k)
         = getPlayerPositionAtStep(PlayerById(players, id), b, k)

\* C17 (as stated): a pass repositions the matched player exactly as a move
\* with the same coordinates, in the resolver and in the interpolator.
PassMovesLikeMove ==
  Evaluated =>
    /\ animated = getAnimatedPlayerPositions(players, actions, argProgress,
                                             TotalSteps(actions), courtMode, speed)
    /\ SameMotion(actions, WithType(actions, {"pass"}, "move"))

\* C17 (amended): move, dribble and screen are equivalent for motion: giving
\* every such action any one of the three types changes no position in the
\* resolver or the interpolator; a pass never repositions a player: removing
\* the passes changes no position either.
MotionTypesEquivalent ==
  Evaluated =>
    /\ animated = getAnimatedPlayerPositions(players, actions, argProgress,
                                             TotalSteps(actions), courtMode, speed)
    /\ \A t \in {"move", "dribble", "screen"} :
         SameMotion(actions, WithType(actions, {"move", "dribble", "screen"}, t))
    /\ SameMotion(actions, WithoutPasses(actions))

\* a pass from the player's position, evaluated after its step: nobody moved
MotionTypesEquivalentWitness ==
  /\ Evaluated
  /\ players = <<Player("p1", 0, 0)>>
  /\ actions = <<Act("pass", Pt(0, 0), Pt(50, 50), 0, <<>>, R(0))>>
  /\ argProgress = R(1)
  /\ animated["p1"] = CourtOf(Pt(0, 0))
  /\ ResolvedAt("p1", 1) = Pt(0, 0)

(***************************************************************************)
(* Properties of the edited document                                       *)
(***************************************************************************)
\* the actions of step k that the engine would apply to the player id there
ActionsOf(id, k) ==
  {i \in 1..Len(actions) :
     Matches(actions[i], k, ResolvedAt(id, k).x, ResolvedAt(id, k).y)}

\* C18: after any sequence of editor operations each player has at most one
\* action per step: for every player and step there is at most one action of
\* that step whose from matches the player's resolved position at that step.
OneActionPerPlayerStep ==
  phase = "editor" =>
    \A id \in Ids(players) : \A k \in 0..MaxStep : Cardinality(ActionsOf(id, k)) <= 1

\* C19: after any sequence of editor operations the from of every stored
\* action is within the matching tolerance of the resolved position, at the
\* action's step, of the player the action was created for.
FromAtResolvedPosition ==
  phase = "editor" =>
    \A i \in 1..Len(actions) :
      createdFor[i] \in Ids(players) =>
        LET at == ResolvedAt(createdFor[i], actions[i].stepIndex)
        IN  /\ RLt(RAbs(RSub(actions[i].fromX, at.x)), R(TOLERANCE))
            /\ RLt(RAbs(RSub(actions[i].fromY, at.y)), R(TOLERANCE))

\* C20 (as stated): after any sequence of step navigation and additions the
\* stepIndex values of the action list are non-decreasing in list order.
StepOrder ==
  phase = "editor" =>
    \A i, j \in 1..Len(actions) : i < j => actions[i].stepIndex <= actions[j].stepIndex

\* C20 (amended): the list is in order of creation, not of step: every
\* addition puts exactly one action at the end of the list, with the step
\* that is current at that moment and the selected player's resolved position
\* there as its from, and leaves the actions before it as they were.
AppendedAtCurrentStep ==
  [][(phase = "editor" /\ Len(actions') > Len(actions)) =>
       /\ Len(actions') = Len(actions) + 1
       /\ SubSeq(actions', 1, Len(actions)) = actions
       /\ actions'[Len(actions')].stepIndex = currentStep
       /\ currentStep' = currentStep
       /\ selectedPlayer \in Ids(players)
       /\ [x |-> actions'[Len(actions')].fromX, y |-> actions'[Len(actions')].fromY]
            = ResolvedAt(selectedPlayer, currentStep)]_vars

\* an action added at step 0 after one of step 1
AppendedAtCurrentStepWitness ==
  /\ phase = "editor"
  /\ event.kind = "edit"
  /\ Len(actions) = 2
  /\ actions[1].stepIndex = 1 /\ actions[1].type = "move"
  /\ actions[2].stepIndex = 0 /\ actions[2].type = "dribble"
  /\ createdFor = <<"p1", "p1">>
  /\ currentStep = 0

\* C21: every delay the editor can give an action is in [0, per-step
\* duration): 0 <= delay < 1/speed seconds for the speed of the playback.
DelayWithinStepDuration ==
  phase = "editor" =>
    \A i \in 1..Len(actions) :
      /\ RLe(R(0), actions[i].delay)
      /\ RLt(actions[i].delay, RInv(speed))

(***************************************************************************)
(* Properties of the placement                                             *)
(***************************************************************************)
\* a placement click would find its role taken
PendingTaken ==
  /\ tool \in PlacementTools
  /\ pendingPosition # NoPending
  /\ alreadyPlaced(pendingPosition.team, pendingPosition.position)

\* C22: whatever roles are chosen and players placed, removed and cleared, no
\* two players of a team have the same role; a placement click for a role
\* that is taken on that team leaves the player list and the count of each
\* team as they are.  (The role buttons of taken roles are disabled and a
\* placement clears the pending role, so no such click ever happens.)
OnePlayerPerRole ==
  /\ [](\A i, j \in 1..Len(players) :
          (i # j /\ players[i].team = players[j].team /\ players[i].position # None)
            => players[i].position # players[j].position)
  /\ [](~PendingTaken)
  /\ [][ (PendingTaken /\ \E pt \in ClickPoints : placeOnCourtClick(pt))
         => UNCHANGED <<players, playerCount>> ]_vars

\* both teams have a point guard, the defense got its own first, and the
\* shooting guard of the offense is about to be placed
OnePlayerPerRoleWitness ==
  /\ phase = "editor"
  /\ Len(players) = 2
  /\ players[1].team = "away" /\ players[1].position = "PG"
  /\ players[2].team = "home" /\ players[2].position = "PG"
  /\ playerCount = [home |-> 1, away |-> 1]
  /\ pendingPosition = [team |-> "home", position |-> "SG"]
  /\ tool = "player-offense"

(***************************************************************************)
(* Matching of actions and players                                         *)
(***************************************************************************)
\* the from of action i is within the tolerance of the position pos
FromNear(i, pos) ==
  /\ RLt(RAbs(RSub(actions[i].fromX, pos.x)), R(TOLERANCE))
  /\ RLt(RAbs(RSub(actions[i].fromY, pos.y)), R(TOLERANCE))

\* action i starts near no player's running position at its step
Unmatched(i) ==
  \A id \in Ids(players) : ~FromNear(i, ResolvedAt(id, actions[i].stepIndex))

Without(i) == Filtered(actions, (1..Len(actions)) \ {i}, 1)

\* C23: an action whose from is within tolerance of no player's running
\* position at its step is ignored: the document without it gives every
\* player the same position at the evaluated progress and at every target
\* step, and the evaluation yields a position for every player.
UnmatchedActionIgnored ==
  Evaluated =>
    /\ DOMAIN animated = Ids(players)
    /\ animated = getAnimatedPlayerPositions(players, actions, argProgress,
                                             TotalSteps(actions), courtMode, speed)
    /\ \A i \in 1..Len(actions) :
         Unmatched(i) =>
           /\ animated = getAnimatedPlayerPositions(players, Without(i), argProgress,
                                                    TotalSteps(Without(i)), courtMode,
                                                    speed)
           /\ \A k \in 0..MaxTargetStep : \A id \in Ids(players) :
                ResolvedAt(id, k)
                  = getPlayerPositionAtStep(PlayerById(players, id), Without(i), k)

\* half way through step 1, whose only action starts far from the player
UnmatchedActionIgnoredWitness ==
  /\ Evaluated
  /\ players = <<Player("p1", 0, 0)>>
  /\ actions = <<Act("move", Pt(0, 0), Pt(50, 0), 0, <<>>, R(0)),
                 Act("move", Pt(200, 200), Pt(0, 0), 1, <<>>, R(0))>>
  /\ Unmatched(2)
  /\ argProgress = <<3, 2>>
  /\ animated["p1"] = CourtOf(Pt(50, 0))

\* the players whose position, at the evaluated progress or at some target
\* step, is not what it is in the document without action i
MovedBy(i) ==
  {id \in Ids(players) :
     \/ animated[id] # getAnimatedPlayerPositions(players, Without(i), argProgress,
                                                  TotalSteps(Without(i)), courtMode,
                                                  speed)[id]
     \/ \E k \in 0..MaxTargetStep :
          ResolvedAt(id, k) # getPlayerPositionAtStep(PlayerById(players, id), Without(i), k)}

\* C24: every action belongs to one player: in the resolver and in the
\* interpolator an action changes the position of at most one player, also
\* when the running positions of two players are both within the tolerance
\* of its from.
OnePlayerPerAction ==
  Evaluated => \A i \in 1..Len(actions) : Cardinality(MovedBy(i)) <= 1

(***************************************************************************)
(* Timers of earlier runs                                                  *)
(***************************************************************************)
\* C25: a run ends only by a stop or by its own progress reaching
\* totalSteps: a timer armed by an earlier run that was stopped during its
\* hold never takes a later run out of Running.
RunOutlivesEarlierTimers ==
  [][ (Running /\ ~Running')
      => \/ event'.kind = "stop"
         \/ /\ event'.kind = "frame"
            /\ Holding'
            /\ progressRef' = R(TotalSteps(actions)) ]_vars

\* action i passes the box test for a player at pos in step k
InBox(i, k, pos) ==
  /\ actions[i].stepIndex = k
  /\ actions[i].type \in {"move", "dribble", "screen"}
  /\ RLt(RAbs(RSub(actions[i].fromX, pos.x)), R(50))
  /\ RLt(RAbs(RSub(actions[i].fromY, pos.y)), R(50))

\* action i is exactly the tolerance away from pos on one of the axes
OnBoxEdge(i, pos) ==
  \/ RAbs(RSub(actions[i].fromX, pos.x)) = R(50)
  \/ RAbs(RSub(actions[i].fromY, pos.y)) = R(50)

FirstInBox(k, pos) ==
  IF \E i \in 1..Len(actions) : InBox(i, k, pos)
  THEN CHOOSE i \in 1..Len(actions) :
         InBox(i, k, pos) /\ \A j \in 1..(i - 1) : ~InBox(j, k, pos)
  ELSE 0

\* C26: matching is a strict box test per axis with the constant 50, on the
\* types move, dribble and screen; an action exactly 50 units away on an axis
\* does not match; the resolver and the interpolator select the same action.
StrictBoxMatching ==
  Evaluated =>
    /\ animated = getAnimatedPlayerPositions(players, actions, argProgress,
                                             TotalSteps(actions), courtMode, speed)
    /\ \A id \in Ids(players) : \A k \in 0..MaxTargetStep :
         LET pos == ResolvedAt(id, k)
             inResolver == FindAction(actions, k, pos.x, pos.y)
             inInterpolator == AnimFindAction(actions, k, pos.x, pos.y)
         IN  /\ inResolver = FirstInBox(k, pos)
             /\ inInterpolator = FirstInBox(k, pos)
             /\ \A i \in 1..Len(actions) :
                  OnBoxEdge(i, pos) => (i # inResolver /\ i # inInterpolator)

\* the only action of the play starts exactly 50 units from the player
StrictBoxMatchingWitness ==
  /\ Evaluated
  /\ players = <<Player("p1", 0, 0)>>
  /\ actions = <<Act("move", Pt(50, 0), Pt(100, 50), 0, <<>>, <<1, 4>>)>>
  /\ OnBoxEdge(1, ResolvedAt("p1", 0))
  /\ argProgress = R(1)
  /\ animated["p1"] = CourtOf(Pt(0, 0))
  /\ ResolvedAt("p1", 1) = Pt(0, 0)

\* the actions of step k that pass the box test for a player at pos
AllInBox(k, pos) == {i \in 1..Len(actions) : InBox(i, k, pos)}

\* C27: when several actions of a step match a player's running position, the
\* first of them in list order is applied, in the resolver and in the
\* interpolator alike, and the later ones are ignored for that player: without
\* any one of them the player is where it is with it.
FirstMatchWins ==
  Evaluated =>
    /\ animated = getAnimatedPlayerPositions(players, actions, argProgress,
                                             TotalSteps(actions), courtMode, speed)
    /\ \A id \in Ids(players) : \A k \in 0..MaxTargetStep :
         LET M == AllInBox(k, ResolvedAt(id, k))
             first == CHOOSE i \in M : \A j \in M : i <= j
         IN  Cardinality(M) >= 2 =>
               /\ ResolvedAt(id, k + 1) = ToOf(actions[first])
               /\ AnimatedXY(PlayerById(players, id), actions, R(k + 1),
                             TotalSteps(actions), speed) = ToOf(actions[first])
               /\ \A j \in M \ {first} :
                    /\ animated[id]
                         = getAnimatedPlayerPositions(players, Without(j), argProgress,
                                                      TotalSteps(Without(j)), courtMode,
                                                      speed)[id]
                    /\ \A t \in 0..MaxTargetStep :
                         ResolvedAt(id, t)
                           = getPlayerPositionAtStep(PlayerById(players, id),
                                                     Without(j), t)

\* two moves of step 0 start at the player: it ends where the first one goes
FirstMatchWinsWitness ==
  /\ Evaluated
  /\ players = <<Player("p1", 0, 0)>>
  /\ actions = <<Act("move", Pt(0, 0), Pt(50, 0), 0, <<>>, R(0)),
                 Act("move", Pt(0, 0), Pt(100, 0), 0, <<>>, <<1, 2>>)>>
  /\ AllInBox(0, ResolvedAt("p1", 0)) = {1, 2}
  /\ argProgress = R(1)
  /\ animated["p1"] = CourtOf(Pt(50, 0))

(***************************************************************************)
(* Liveness of the driver                                                  *)
(***************************************************************************)
\* run r has been started
Started(r) == Len(history) >= r

\* run r reached totalSteps, held and delivered its notification
Completed(r) == Started(r) /\ history[r].held /\ history[r].ended = 1

\* run r was stopped with toggleAnimation
StoppedRun(r) == Started(r) /\ history[r].stopped

\* C28: with frames that keep arriving and a hold timer that is eventually
\* run, every run that is started and never stopped reaches
\* progress = totalSteps, enters Holding and delivers its notification.
EveryRunCompletes ==
  \A r \in 1..MaxRuns : Started(r) ~> (StoppedRun(r) \/ Completed(r))

\* What does hold: the first run, and every run started when no timer of an
\* earlier run is pending, completes unless it is stopped.
UndisturbedRunCompletes ==
  \A r \in 1..MaxRuns :
    (Started(r) /\ run = r /\ event.kind = "start" /\ timers = <<>>)
       ~> (StoppedRun(r) \/ Completed(r))

(***************************************************************************)
(* The segment of the path an action in flight is on                       *)
(***************************************************************************)
\* "segIdx" and "segFrac" of an action at effectiveFrac
SegIdxAt(act, effectiveFrac) ==
  LET segments == Len(AllPoints(act)) - 1
      floorSeg == RFloor(RMul(effectiveFrac, R(segments)))
  IN  IF floorSeg < segments - 1 THEN floorSeg ELSE segments - 1

SegFracAt(act, effectiveFrac) ==
  RSub(RMul(effectiveFrac, R(Len(AllPoints(act)) - 1)), R(SegIdxAt(act, effectiveFrac)))

\* pt lies on the straight segment from p to q
OnSegment(pt, p, q) ==
  LET ux == RSub(q.x, p.x)
      uy == RSub(q.y, p.y)
      vx == RSub(pt.x, p.x)
      vy == RSub(pt.y, p.y)
      dot == RAdd(RMul(ux, vx), RMul(uy, vy))
  IN  /\ RMul(ux, vy) = RMul(uy, vx)
      /\ RLe(R(0), dot)
      /\ RLe(dot, RAdd(RMul(ux, ux), RMul(uy, uy)))

\* C29: for every progress, every delay (delay*speed >= 1 included) and every
\* action with k >= 0 waypoints, the effective fraction of the action in
\* flight is in [0, 1); where it is above 0 the segment index is in 0..k, the
\* fraction within the segment is in [0, 1] and the player is on that segment
\* of the path [from, w1..wk, to], between two points of the list.
SegmentWithinPath ==
  Evaluated =>
    \A id \in Ids(players) :
      InFlight(id) # 0 =>
        LET a == actions[InFlight(id)]
            k == Len(a.waypoints)
            pts == AllPoints(a)
            ef == InFlightEff(id)
            s == SegIdxAt(a, ef)
            t == SegFracAt(a, ef)
        IN  /\ RLe(R(0), ef) /\ RLt(ef, R(1))
            /\ ef = R(0) => animated[id] = CourtOf(ResolvedAt(id, ArgStep))
            /\ RLt(R(0), ef) =>
                 /\ s \in 0..k
                 /\ s + 2 <= Len(pts)
                 /\ RLe(R(0), t) /\ RLe(t, R(1))
                 /\ PathPoint(a, ef) = [x |-> Lerp(pts[s + 1].x, pts[s + 2].x, t),
                                        y |-> Lerp(pts[s + 1].y, pts[s + 2].y, t)]
                 /\ OnSegment(PathPoint(a, ef), pts[s + 1], pts[s + 2])
                 /\ animated[id] = CourtOf(PathPoint(a, ef))

\* the screen delayed by 3 s (delay*speed >= 1) half way along its path late in
\* step 1: on the last segment, at the waypoint
SegmentWithinPathWitness ==
  /\ Evaluated
  /\ players = <<Player("p1", 0, 0)>>
  /\ actions = <<Act("move", Pt(0, 0), Pt(50, 0), 0, <<>>, R(0)),
                 Act("screen", Pt(50, 0), Pt(0, 50), 1, <<Pt(40, 40)>>, R(3))>>
  /\ argProgress = <<399, 200>>
  /\ RLe(R(1), RMul(R(3), speed))
  /\ InFlight("p1") = 2
  /\ InFlightEff("p1") = <<1, 2>>
  /\ SegIdxAt(actions[2], InFlightEff("p1")) = 1
  /\ animated["p1"] = CourtOf(Pt(40, 40))

(***************************************************************************)
(* Removal of a player                                                     *)
(***************************************************************************)
\* action i starts at the running position of player id at the action's step
AttributedTo(i, id) == FromNear(i, ResolvedAt(id, actions[i].stepIndex))

\* the step takes the selected player off the court
RemovalStep ==
  /\ selectedPlayer \in Ids(players)
  /\ Ids(players') = Ids(players) \ {selectedPlayer}

\* C30: removeSelectedPlayer deletes exactly the removed player's actions: no
\* action that starts at the removed player's running position at its step
\* (the base position at step 0, the moved position at later steps) remains,
\* and every action that starts at another player's running position only is
\* still in the list, unchanged and in order.
RemovesExactlyOwnActions ==
  [][RemovalStep =>
       LET own == {i \in 1..Len(actions) : AttributedTo(i, selectedPlayer)}
           others == {i \in 1..Len(actions) :
                        \E id \in Ids(players) \ {selectedPlayer} : AttributedTo(i, id)}
       IN  \E K \in SUBSET (1..Len(actions)) :
             /\ actions' = Filtered(actions, K, 1)
             /\ K \cap own = {}
             /\ (others \ own) \subseteq K]_vars

====
